---------------------------- MODULE Spec2Model ----------------------------
(***************************************************************************)
(* Model of src/src/matching/orderbook.rs: the Orderbook of one security,  *)
(* its price ladders (VecDeque<VecDeque<i64>>), at-market queues, order    *)
(* registry (order_map) and the operations place_order and cancel_order.   *)
(*                                                                         *)
(* An Option<i64> is a sequence of length <= 1: None is <<>>, Some(x) is   *)
(* <<x>>.  A VecDeque is a sequence; its 0-based index i is element i + 1. *)
(* A panic (unwrap on a failed conversion, an out-of-bounds insert,        *)
(* todo!()) ends the run: aborted becomes TRUE and no call follows.        *)
(***************************************************************************)
EXTENDS Integers, Sequences, FiniteSets, TLC

\* Bounds of the model: largest price and quantity a request carries, and
\* the number of calls made on one Orderbook.
MaxPrice == 3
MaxAmount == 2
MaxCalls == 3

VARIABLES
    starting_price,            \* Orderbook.starting_price
    current_market_price,      \* Orderbook.current_market_price
    best_bid,                  \* Orderbook.best_bid
    best_ask,                  \* Orderbook.best_ask
    worst_bid,                 \* Orderbook.worst_bid
    worst_ask,                 \* Orderbook.worst_ask
    order_map,                 \* Orderbook.order_map : id -> Order
    buy_at_market_orders,      \* Orderbook.buy_at_market_orders
    sell_at_market_orders,     \* Orderbook.sell_at_market_orders
    buy_limit_orders,          \* Orderbook.buy_limit_orders
    sell_limit_orders,         \* Orderbook.sell_limit_orders
    number_buy_limit_orders,   \* Orderbook.number_buy_limit_orders
    number_sell_limit_orders,  \* Orderbook.number_sell_limit_orders
    executions,                \* the Execution values constructed so far
    admitted,                  \* the orders of the calls that returned Ok(id), in call order
    call,                      \* the latest call: operation and argument
    result,                    \* what the latest call returned
    aborted,                   \* TRUE once a call has panicked
    matching_signal,           \* the MatchingSignal the latest insert_order returned, or "none"
    walks,                     \* the match_against_* functions the latest call invoked, in order
    calls                      \* number of calls made

book == << current_market_price, best_bid, best_ask, worst_bid, worst_ask,
           order_map, buy_at_market_orders, sell_at_market_orders,
           buy_limit_orders, sell_limit_orders,
           number_buy_limit_orders, number_sell_limit_orders >>

vars == << starting_price, current_market_price, best_bid, best_ask, worst_bid,
           worst_ask, order_map, buy_at_market_orders, sell_at_market_orders,
           buy_limit_orders, sell_limit_orders, number_buy_limit_orders,
           number_sell_limit_orders, executions, admitted, call, result,
           aborted, matching_signal, walks, calls >>

-----------------------------------------------------------------------------
\* Order::new: a request's order, not yet admitted (order_id = -1).
Order(is_buy_order, order_limit, amount) ==
    [ order_id |-> -1, is_buy_order |-> is_buy_order, order_limit |-> order_limit,
      amount |-> amount, amount_executed |-> 0 ]

\* The limits and orders a caller may pass: any side, market or limit, limits
\* and amounts of either sign.
Limits == { <<>> } \cup { <<p>> : p \in (-1)..MaxPrice }

Orders == { Order(b, l, a) : b \in BOOLEAN, l \in Limits, a \in (-1)..MaxAmount }

NoOrder == Order(FALSE, <<>>, 0)

\* Results of a call.
Ok(v) == [ kind |-> "Ok", value |-> v, text |-> "" ]

Err(t) == [ kind |-> "Err", value |-> 0, text |-> t ]

Panic == [ kind |-> "panic", value |-> 0, text |-> "" ]

-----------------------------------------------------------------------------
\* insert_order line 43: the id given to every admitted order.
new_order_id == 1

\* An amount check that refuses only an amount of zero.
AmountRejectedZeroOnly(amount) == amount = 0

\* insert_order line 41: the amount check.
AmountRejected(amount) == amount <= 0

\* A limit check that refuses nothing.
LimitRejectedNever(limit) == FALSE

\* A limit check that lets a limit of zero through.
LimitRejectedBelowZero(limit) == limit < 0

\* insert_order line 50: the limit check.
LimitRejected(limit) == limit <= 0

\* i64 -> usize by try_into().unwrap(): succeeds iff the value is not negative.
FitsUsize(index) == index >= 0

\* VecDeque::push_front / push_back of a new one-order queue.
PushFront(ladder, id) == << <<id>> >> \o ladder

PushBack(ladder, id) == Append(ladder, <<id>>)

\* VecDeque::get_mut(index) is Some.
HasLevel(ladder, index) == index < Len(ladder)

\* subqueue.push_back(id) on the level get_mut(index) returned.
PushToLevel(ladder, index, id) == [ ladder EXCEPT ![index + 1] = Append(@, id) ]

\* VecDeque::insert(index, queue): panics when index > len.
InsertFits(ladder, index) == index <= Len(ladder)

InsertLevel(ladder, index, id) ==
    SubSeq(ladder, 1, index) \o << <<id>> >> \o SubSeq(ladder, index + 1, Len(ladder))


-----------------------------------------------------------------------------
\* What insert_order leaves behind and returns.  kind is "Ok", "Err" or
\* "panic"; the other fields are the ladder fields after the call.
Untouched ==
    [ kind |-> "Ok", signal |-> "NoOperation", text |-> "",
      best_bid |-> best_bid, best_ask |-> best_ask,
      worst_bid |-> worst_bid, worst_ask |-> worst_ask,
      buy_limit_orders |-> buy_limit_orders,
      sell_limit_orders |-> sell_limit_orders,
      number_buy_limit_orders |-> number_buy_limit_orders,
      number_sell_limit_orders |-> number_sell_limit_orders ]

InsertErr(t) == [ Untouched EXCEPT !.kind = "Err", !.text = t ]

InsertPanic == [ Untouched EXCEPT !.kind = "panic" ]

\* insert_order, lines 52-82: a buy limit order.
insert_buy_limit(limit) ==
    IF limit > best_bid
    THEN [ Untouched EXCEPT
             !.buy_limit_orders = PushFront(buy_limit_orders, new_order_id),
             !.number_buy_limit_orders = @ + 1,
             !.best_bid = limit,
             !.signal = "NewHighestBid" ]
    ELSE IF limit < worst_bid
    THEN IF worst_bid * 12 < current_market_price * 10
         THEN InsertErr("Limit is too far away from current market price.")
         ELSE [ Untouched EXCEPT
                  !.buy_limit_orders = PushBack(buy_limit_orders, new_order_id),
                  !.number_buy_limit_orders = @ + 1,
                  !.worst_bid = limit,
                  !.signal = "NoOperation" ]
    ELSE LET index == limit - best_bid
             signal == IF index = 0 THEN "NewHighestBid" ELSE "NoOperation"
         IN  IF ~FitsUsize(index)
             THEN InsertPanic
             ELSE IF HasLevel(buy_limit_orders, index)
             THEN [ Untouched EXCEPT
                      !.buy_limit_orders = PushToLevel(buy_limit_orders, index, new_order_id),
                      !.signal = signal ]
             ELSE IF ~InsertFits(buy_limit_orders, index)
             THEN InsertPanic
             ELSE [ Untouched EXCEPT
                      !.buy_limit_orders = InsertLevel(buy_limit_orders, index, new_order_id),
                      !.signal = signal ]

\* insert_order, lines 84-111: a sell limit order.
insert_sell_limit(limit) ==
    IF limit < best_ask
    THEN [ Untouched EXCEPT
             !.sell_limit_orders = PushFront(sell_limit_orders, new_order_id),
             !.number_sell_limit_orders = @ + 1,
             !.best_ask = limit,
             !.signal = "NewLowestAsk" ]
    ELSE IF limit > worst_ask
    THEN [ Untouched EXCEPT
             !.sell_limit_orders = PushBack(sell_limit_orders, new_order_id),
             !.number_sell_limit_orders = @ + 1,
             !.worst_ask = limit,
             !.signal = "NoOperation" ]
    ELSE LET index == limit - best_ask
             signal == IF index = 0 THEN "NewLowestAsk" ELSE "NoOperation"
         IN  IF ~FitsUsize(index)
             THEN InsertPanic
             ELSE IF HasLevel(sell_limit_orders, index)
             THEN [ Untouched EXCEPT
                      !.sell_limit_orders = PushToLevel(sell_limit_orders, index, new_order_id),
                      !.signal = signal ]
             ELSE IF ~InsertFits(sell_limit_orders, index)
             THEN InsertPanic
             ELSE [ Untouched EXCEPT
                      !.sell_limit_orders = InsertLevel(sell_limit_orders, index, new_order_id),
                      !.signal = signal ]

\* insert_order, lines 40-115.
insert_order(order) ==
    IF AmountRejected(order.amount)
    THEN InsertErr("Order amount must be greater than zero")
    ELSE IF order.order_limit # <<>>
    THEN IF LimitRejected(order.order_limit[1])
         THEN InsertErr("Limit must be greater than zero")
         ELSE IF order.is_buy_order
         THEN insert_buy_limit(order.order_limit[1])
         ELSE insert_sell_limit(order.order_limit[1])
    ELSE [ Untouched EXCEPT
             !.signal = IF order.is_buy_order THEN "BuyAtMarket" ELSE "SellAtMarket" ]

-----------------------------------------------------------------------------
\* A walk on the buy side that keeps the unmatched order in the registry.
match_against_buy_side_at_market_Rests(order) ==
    [ order_map |-> [ k \in (DOMAIN order_map) \cup {order.order_id} |->
                        IF k = order.order_id THEN order ELSE order_map[k] ],
      executions |-> executions,
      current_market_price |-> current_market_price ]

\* A walk on the sell side that moves the market price to the incoming limit.
match_against_sell_side_MovesPrice(order) ==
    [ order_map |-> order_map, executions |-> executions,
      current_market_price |-> order.order_limit[1] ]

\* What a matching walk leaves behind: the registry, the executions, the
\* market price.  The four walks have empty bodies.
match_against_buy_side_at_market(order) ==
    [ order_map |-> order_map, executions |-> executions,
      current_market_price |-> current_market_price ]

match_against_sell_side_at_market(order) ==
    [ order_map |-> order_map, executions |-> executions,
      current_market_price |-> current_market_price ]

match_against_buy_side(order) ==
    [ order_map |-> order_map, executions |-> executions,
      current_market_price |-> current_market_price ]

match_against_sell_side(order) ==
    [ order_map |-> order_map, executions |-> executions,
      current_market_price |-> current_market_price ]

\* HashMap::insert(order_id, order): an earlier entry under the id is replaced.
MapInsert(map, id, order) ==
    [ k \in (DOMAIN map) \cup {id} |-> IF k = id THEN order ELSE map[k] ]

\* place_order, lines 130-151: the match on the signal.
AfterSignal(signal, order) ==
    CASE signal = "BuyAtMarket" -> match_against_sell_side_at_market(order)
      [] signal = "SellAtMarket" -> match_against_buy_side_at_market(order)
      [] signal = "NewHighestBid" -> match_against_sell_side(order)
      [] signal = "NewLowestAsk" -> match_against_buy_side(order)
      [] signal = "NoOperation" ->
            [ order_map |-> MapInsert(order_map, order.order_id, order),
              executions |-> executions,
              current_market_price |-> current_market_price ]

\* A match on the signal that falls back to walking both sides on NoOperation.
WalksOnEverySignal(sig) ==
    CASE sig = "BuyAtMarket" -> << "match_against_sell_side_at_market" >>
      [] sig = "SellAtMarket" -> << "match_against_buy_side_at_market" >>
      [] sig = "NewHighestBid" -> << "match_against_sell_side" >>
      [] sig = "NewLowestAsk" -> << "match_against_buy_side" >>
      [] sig = "NoOperation" -> << "match_against_buy_side", "match_against_sell_side" >>

\* place_order, lines 130-151: the walks the match on the signal invokes.
Walks(sig) ==
    CASE sig = "BuyAtMarket" -> << "match_against_sell_side_at_market" >>
      [] sig = "SellAtMarket" -> << "match_against_buy_side_at_market" >>
      [] sig = "NewHighestBid" -> << "match_against_sell_side" >>
      [] sig = "NewLowestAsk" -> << "match_against_buy_side" >>
      [] sig = "NoOperation" -> << >>

\* place_order, lines 127-157.
place_order(order) ==
    LET ins == insert_order(order)
        assigned == [ order EXCEPT !.order_id = new_order_id ]
        after == AfterSignal(ins.signal, assigned)
    IN  /\ ~aborted
        /\ calls < MaxCalls
        /\ calls' = calls + 1
        /\ call' = [ op |-> "place_order", order |-> order, order_id |-> 0 ]
        /\ UNCHANGED << starting_price, buy_at_market_orders, sell_at_market_orders >>
        /\ CASE ins.kind = "panic" ->
                  /\ aborted' = TRUE
                  /\ result' = Panic
                  /\ matching_signal' = "none"
                  /\ walks' = << >>
                  /\ UNCHANGED << current_market_price, best_bid, best_ask, worst_bid,
                                  worst_ask, order_map, buy_limit_orders,
                                  sell_limit_orders, number_buy_limit_orders,
                                  number_sell_limit_orders, executions, admitted >>
             [] ins.kind = "Err" ->
                  /\ result' = Err(ins.text)
                  /\ matching_signal' = "none"
                  /\ walks' = << >>
                  /\ UNCHANGED << current_market_price, best_bid, best_ask, worst_bid,
                                  worst_ask, order_map, buy_limit_orders,
                                  sell_limit_orders, number_buy_limit_orders,
                                  number_sell_limit_orders, executions, admitted,
                                  aborted >>
             [] ins.kind = "Ok" ->
                  /\ best_bid' = ins.best_bid
                  /\ best_ask' = ins.best_ask
                  /\ worst_bid' = ins.worst_bid
                  /\ worst_ask' = ins.worst_ask
                  /\ buy_limit_orders' = ins.buy_limit_orders
                  /\ sell_limit_orders' = ins.sell_limit_orders
                  /\ number_buy_limit_orders' = ins.number_buy_limit_orders
                  /\ number_sell_limit_orders' = ins.number_sell_limit_orders
                  /\ order_map' = after.order_map
                  /\ executions' = after.executions
                  /\ current_market_price' = after.current_market_price
                  /\ admitted' = Append(admitted, assigned)
                  /\ result' = Ok(new_order_id)
                  /\ matching_signal' = ins.signal
                  /\ walks' = Walks(ins.signal)
                  /\ UNCHANGED aborted

\* cancel_order, lines 117-125: todo!() panics on every call.
cancel_order(order_id) ==
    /\ ~aborted
    /\ calls < MaxCalls
    /\ calls' = calls + 1
    /\ call' = [ op |-> "cancel_order", order |-> NoOrder, order_id |-> order_id ]
    /\ aborted' = TRUE
    /\ result' = Panic
    /\ matching_signal' = "none"
    /\ walks' = << >>
    /\ UNCHANGED << starting_price, current_market_price, best_bid, best_ask,
                    worst_bid, worst_ask, order_map, buy_at_market_orders,
                    sell_at_market_orders, buy_limit_orders, sell_limit_orders,
                    number_buy_limit_orders, number_sell_limit_orders,
                    executions, admitted >>

-----------------------------------------------------------------------------
\* Orderbook::new, lines 21-38, for the lowest and the highest starting price.
Init ==
    /\ starting_price \in {1, MaxPrice}
    /\ current_market_price = starting_price
    /\ best_bid = 0
    /\ best_ask = 0
    /\ worst_bid = 0
    /\ worst_ask = 0
    /\ order_map = << >>
    /\ buy_at_market_orders = << >>
    /\ sell_at_market_orders = << >>
    /\ buy_limit_orders = << >>
    /\ sell_limit_orders = << >>
    /\ number_buy_limit_orders = 0
    /\ number_sell_limit_orders = 0
    /\ executions = << >>
    /\ admitted = << >>
    /\ call = [ op |-> "new", order |-> NoOrder, order_id |-> 0 ]
    /\ result = Ok(0)
    /\ aborted = FALSE
    /\ matching_signal = "none"
    /\ walks = << >>
    /\ calls = 0

\* The ids a caller may ask to cancel.
OrderIds == 0..MaxCalls

PlaceOrder == \E order \in Orders : place_order(order)

CancelOrder == \E order_id \in OrderIds : cancel_order(order_id)

Next == PlaceOrder \/ CancelOrder

Spec == Init /\ [][Next]_vars

-----------------------------------------------------------------------------
\* Vocabulary of the properties.  No walk or cancellation ever takes an order
\* out of a ladder, so the resting limit orders of a side are the admitted
\* limit orders of that side.
Resting(is_buy) ==
    { i \in DOMAIN admitted :
        admitted[i].is_buy_order = is_buy /\ admitted[i].order_limit # <<>> }

RestingPrices(is_buy) == { admitted[i].order_limit[1] : i \in Resting(is_buy) }

Highest(S) == CHOOSE x \in S : \A y \in S : y <= x

Lowest(S) == CHOOSE x \in S : \A y \in S : x <= y

Lesser(a, b) == IF a <= b THEN a ELSE b

Remaining(order) == order.amount - order.amount_executed

\* No admitted buy limit reaches an admitted sell limit.
NoCrossing ==
    \A b \in RestingPrices(TRUE), a \in RestingPrices(FALSE) : b < a

\* The ids found in the levels of a ladder.
LadderIds(ladder) ==
    UNION { { ladder[l][k] : k \in DOMAIN ladder[l] } : l \in DOMAIN ladder }

QueuedIds ==
    LadderIds(buy_limit_orders) \cup LadderIds(sell_limit_orders)
      \cup { buy_at_market_orders[k] : k \in DOMAIN buy_at_market_orders }
      \cup { sell_at_market_orders[k] : k \in DOMAIN sell_at_market_orders }

\* The latest step was place_order(order) / cancel_order(order_id).
Placed(order) == call.op = "place_order" /\ call.order = order

-----------------------------------------------------------------------------
\* C1: the ids of the admitted orders strictly increase in admission order,
\* so no two successful place_order calls return the same id.
C1_IdsStrictlyIncrease ==
    \A i, j \in DOMAIN admitted :
        i < j => admitted[i].order_id < admitted[j].order_id

\* C2: place_order always runs to completion: it returns an id or an error
\* value and never panics.
C2_PlaceOrderNeverPanics ==
    ~(call.op = "place_order" /\ result.kind = "panic")

\* C3: after valid limit placements with no crossing prices, on each side
\* with resting limit orders best and worst are the extrema of the resting
\* prices: best_bid the highest and worst_bid the lowest buy price, best_ask
\* the lowest and worst_ask the highest sell price.
C3_BoundsAreExtrema ==
    NoCrossing =>
      /\ RestingPrices(TRUE) # {} =>
            /\ best_bid = Highest(RestingPrices(TRUE))
            /\ worst_bid = Lowest(RestingPrices(TRUE))
      /\ RestingPrices(FALSE) # {} =>
            /\ best_ask = Lowest(RestingPrices(FALSE))
            /\ worst_ask = Highest(RestingPrices(FALSE))

\* C4: after valid placements with no crossing prices, every admitted order
\* resting in a ladder level is in order_map under its id, and order_map
\* holds no id that is in no queue.
C4_RegistryMatchesQueues ==
    NoCrossing =>
      /\ \A i \in Resting(TRUE) \cup Resting(FALSE) :
            /\ admitted[i].order_id \in DOMAIN order_map
            /\ order_map[admitted[i].order_id] = admitted[i]
      /\ \A id \in DOMAIN order_map : id \in QueuedIds


\* The resting order a crossing order meets first: the earliest admitted
\* order at the best price of the side is_buy.
BestPrice(is_buy) ==
    IF is_buy THEN Highest(RestingPrices(TRUE)) ELSE Lowest(RestingPrices(FALSE))

FirstAt(is_buy, price) ==
    admitted[Lowest({ i \in Resting(is_buy) : admitted[i].order_limit[1] = price })]

\* A valid limit order that crosses the opposing best.
Crosses(order) ==
    /\ order.amount > 0
    /\ order.order_limit # <<>>
    /\ order.order_limit[1] > 0
    /\ RestingPrices(~order.is_buy_order) # {}
    /\ IF order.is_buy_order
       THEN order.order_limit[1] >= BestPrice(FALSE)
       ELSE order.order_limit[1] <= BestPrice(TRUE)

\* C5: placing a limit order that crosses the opposing best produces an
\* Execution between it and the first resting order at the opposing best,
\* for the lesser of the two remaining quantities; the resting order's
\* filled quantity grows by that amount and, once fully filled, it has left
\* the registry.
C5_CrossingLimitExecutes ==
    [][ (call'.op = "place_order" /\ Crosses(call'.order)) =>
          LET incoming == call'.order
              resting == FirstAt(~incoming.is_buy_order, BestPrice(~incoming.is_buy_order))
              quantity == Lesser(Remaining(incoming), Remaining(resting))
              n == Len(executions) + 1
          IN  /\ result'.kind = "Ok"
              /\ Len(executions') >= n
              /\ executions'[n].amount = quantity
              /\ executions'[n].selling_order.is_buy_order = FALSE
              /\ executions'[n].buying_order.is_buy_order = TRUE
              /\ IF incoming.is_buy_order
                 THEN executions'[n].selling_order.order_limit = resting.order_limit
                 ELSE executions'[n].buying_order.order_limit = resting.order_limit
    ]_vars

\* C6: with two sell orders resting at one price, the best ask, a crossing
\* buy order is first executed against the one admitted first, for that
\* order's whole remaining quantity when the buy order covers it.
C6_PriceTimePriority ==
    [][ ( /\ call'.op = "place_order"
          /\ call'.order.is_buy_order
          /\ Crosses(call'.order)
          /\ Cardinality({ i \in Resting(FALSE) :
                             admitted[i].order_limit[1] = BestPrice(FALSE) }) >= 2 ) =>
          LET incoming == call'.order
              first == FirstAt(FALSE, BestPrice(FALSE))
              n == Len(executions) + 1
          IN  /\ Len(executions') >= n
              /\ executions'[n].selling_order.order_limit = first.order_limit
              /\ executions'[n].selling_order.amount = first.amount
              /\ executions'[n].amount = Lesser(Remaining(incoming), Remaining(first))
    ]_vars

\* A valid limit order that would be the new worst price of a side with
\* resting orders and lies beyond the tolerance from current_market_price.
OutOfBand(order) ==
    /\ order.amount > 0
    /\ order.order_limit # <<>>
    /\ order.order_limit[1] > 0
    /\ RestingPrices(order.is_buy_order) # {}
    /\ IF order.is_buy_order
       THEN /\ order.order_limit[1] < Lowest(RestingPrices(TRUE))
            /\ order.order_limit[1] * 12 < current_market_price * 10
       ELSE /\ order.order_limit[1] > Highest(RestingPrices(FALSE))
            /\ order.order_limit[1] * 10 > current_market_price * 12

\* C7: a limit order that would be the new worst price of its side and lies
\* beyond the tolerance from current_market_price is rejected with the
\* out-of-band error, and the book is unchanged.
C7_PriceCollarRejects ==
    [][ (call'.op = "place_order" /\ OutOfBand(call'.order)) =>
          /\ result' = Err("Limit is too far away from current market price.")
          /\ UNCHANGED book
    ]_vars

\* C8: cancel_order of an id that is not in order_map returns an error
\* value, without aborting, and leaves the book unchanged.
C8_CancelAbsentReturnsError ==
    [][ (call'.op = "cancel_order" /\ call'.order_id \notin DOMAIN order_map) =>
          /\ result'.kind = "Err"
          /\ ~aborted'
          /\ UNCHANGED book
    ]_vars

\* The order id is registered and is alone in the front level of the ladder
\* of its side.
AloneAtBest(id) ==
    /\ id \in DOMAIN order_map
    /\ LET ladder == IF order_map[id].is_buy_order
                     THEN buy_limit_orders ELSE sell_limit_orders
       IN  ladder # <<>> /\ ladder[1] = <<id>>

\* C9: cancel_order of the only order at the best level of a side succeeds
\* and takes the order out of its queue and out of the registry.
C9_CancelOnlyBestOrder ==
    [][ (call'.op = "cancel_order" /\ AloneAtBest(call'.order_id)) =>
          /\ result'.kind = "Ok"
          /\ call'.order_id \notin DOMAIN order_map'
          /\ call'.order_id \notin
               LadderIds(buy_limit_orders') \cup LadderIds(sell_limit_orders')
    ]_vars

\* A request that validation refuses: quantity <= 0, or a limit price <= 0.
Invalid(order) ==
    \/ order.amount <= 0
    \/ order.order_limit # <<>> /\ order.order_limit[1] <= 0

\* C10: place_order of an order with quantity <= 0, or of a limit order with
\* price <= 0, returns an error and leaves every field of the Orderbook as
\* it was.
C10_ValidationPrecedesMutation ==
    [][ (call'.op = "place_order" /\ Invalid(call'.order)) =>
          /\ result'.kind = "Err"
          /\ UNCHANGED << book, starting_price >>
    ]_vars

\* A book with resting orders on both sides has just refused a limit order
\* with a positive quantity and a price <= 0.
C10_Witness ==
    /\ call.op = "place_order"
    /\ call.order.amount > 0
    /\ call.order.order_limit # <<>>
    /\ call.order.order_limit[1] <= 0
    /\ result = Err("Limit must be greater than zero")
    /\ buy_limit_orders # <<>>
    /\ sell_limit_orders # <<>>

-----------------------------------------------------------------------------
\* A valid market order whose opposing side holds no resting liquidity.
MarketIntoEmpty(order) ==
    /\ order.amount > 0
    /\ order.order_limit = <<>>
    /\ RestingPrices(~order.is_buy_order) = {}
    /\ IF order.is_buy_order
       THEN sell_limit_orders = <<>> /\ sell_at_market_orders = <<>>
       ELSE buy_limit_orders = <<>> /\ buy_at_market_orders = <<>>

-----------------------------------------------------------------------------
\* A valid limit order.
ValidLimit(order) ==
    /\ order.amount > 0
    /\ order.order_limit # <<>>
    /\ order.order_limit[1] > 0

\* C12: when the ladder of a side holds no resting orders, the first valid
\* limit order placed on that side leaves the side with best = worst = the
\* order's price, on the buy side and on the sell side.
C12_FreshBounds ==
    [][ ( /\ call'.op = "place_order"
          /\ ValidLimit(call'.order)
          /\ Resting(call'.order.is_buy_order) = {}
          /\ IF call'.order.is_buy_order
             THEN buy_limit_orders = <<>> ELSE sell_limit_orders = <<>> ) =>
          /\ result'.kind = "Ok"
          /\ IF call'.order.is_buy_order
             THEN /\ best_bid' = call'.order.order_limit[1]
                  /\ worst_bid' = call'.order.order_limit[1]
             ELSE /\ best_ask' = call'.order.order_limit[1]
                  /\ worst_ask' = call'.order.order_limit[1]
    ]_vars

\* Every queue of the book: the levels of both ladders and the two
\* at-market queues.
AllQueues ==
    buy_limit_orders \o sell_limit_orders
      \o << buy_at_market_orders, sell_at_market_orders >>

\* C13: no order id occurs more than once across all queues of the book:
\* an order is in at most one queue and at most once in it.
C13_IdInAtMostOneQueue ==
    \A q1, q2 \in DOMAIN AllQueues :
      \A k1 \in DOMAIN AllQueues[q1], k2 \in DOMAIN AllQueues[q2] :
        (q1 # q2 \/ k1 # k2) => AllQueues[q1][k1] # AllQueues[q2][k2]

-----------------------------------------------------------------------------
Distance(a, b) == IF a <= b THEN b - a ELSE a - b

\* The number of resting orders of a side at a price.
RestingAt(is_buy, price) ==
    Cardinality({ i \in Resting(is_buy) : admitted[i].order_limit[1] = price })

\* A ladder has |worst - best| + 1 levels and its level at index i holds
\* the orders resting i ticks away from best.
Contiguous(is_buy, ladder, best, worst) ==
    /\ Len(ladder) = Distance(best, worst) + 1
    /\ \A l \in DOMAIN ladder :
          Len(ladder[l]) =
            RestingAt(is_buy, IF is_buy THEN best - (l - 1) ELSE best + (l - 1))

\* C14: each ladder is contiguous over its inclusive price range: a side
\* with resting limit orders has exactly |worst - best| + 1 levels, and the
\* level at index i holds exactly the orders whose limit is i ticks away
\* from the side's best price.
C14_LaddersContiguous ==
    /\ Resting(TRUE) # {} =>
          Contiguous(TRUE, buy_limit_orders, best_bid, worst_bid)
    /\ Resting(FALSE) # {} =>
          Contiguous(FALSE, sell_limit_orders, best_ask, worst_ask)

-----------------------------------------------------------------------------
\* The orders the book knows: the registered ones and the admitted ones.
KnownOrders ==
    { order_map[id] : id \in DOMAIN order_map } \cup { admitted[i] : i \in DOMAIN admitted }

\* An execution has the order on its side.
Against(execution, order) ==
    LET party == IF order.is_buy_order
                 THEN execution.buying_order ELSE execution.selling_order
    IN  /\ party.order_id = order.order_id
        /\ party.is_buy_order = order.is_buy_order
        /\ party.order_limit = order.order_limit
        /\ party.amount = order.amount

\* The sum of the amounts of the executions of a sequence against an order.
RECURSIVE ExecutedAgainst(_, _)
ExecutedAgainst(execs, order) ==
    IF execs = <<>>
    THEN 0
    ELSE (IF Against(Head(execs), order) THEN Head(execs).amount ELSE 0)
           + ExecutedAgainst(Tail(execs), order)

\* C15: every order has 0 <= amount_executed <= amount, and the executions
\* against one order never sum to more than the order's amount.
C15_Conservation ==
    \A order \in KnownOrders :
        /\ 0 <= order.amount_executed
        /\ order.amount_executed <= order.amount
        /\ ExecutedAgainst(executions, order) <= order.amount

\* A buy and a sell limit order that cross have both been admitted and an
\* order is registered: a state in which a fill would be due.
C15_Witness ==
    /\ RestingPrices(TRUE) # {}
    /\ RestingPrices(FALSE) # {}
    /\ ~NoCrossing
    /\ order_map # <<>>
    /\ \A order \in KnownOrders : order.amount > 0

-----------------------------------------------------------------------------
\* The ladder of a side.
Ladder(is_buy) == IF is_buy THEN buy_limit_orders ELSE sell_limit_orders

\* A valid limit order priced strictly better than the best of its side; a
\* first order on a side without resting orders is one.
StrictlyBetter(order) ==
    /\ ValidLimit(order)
    /\ IF order.is_buy_order
       THEN order.order_limit[1] > best_bid
       ELSE \/ RestingPrices(FALSE) = {} /\ sell_limit_orders = <<>>
            \/ RestingPrices(FALSE) # {}
                 /\ order.order_limit[1] < Lowest(RestingPrices(FALSE))

\* C16: a limit order priced strictly better than the current best of its
\* side gets a new level at the front of its ladder, the side's best becomes
\* its price, and the signal is NewHighestBid (buy) or NewLowestAsk (sell).
C16_NewBestBothSides ==
    [][ (call'.op = "place_order" /\ StrictlyBetter(call'.order)) =>
          LET is_buy == call'.order.is_buy_order
              limit == call'.order.order_limit[1]
              before == Ladder(is_buy)
              after == IF is_buy THEN buy_limit_orders' ELSE sell_limit_orders'
          IN  /\ result'.kind = "Ok"
              /\ after = << << result'.value >> >> \o before
              /\ IF is_buy
                 THEN best_bid' = limit /\ matching_signal' = "NewHighestBid"
                 ELSE best_ask' = limit /\ matching_signal' = "NewLowestAsk"
    ]_vars

\* A valid limit order priced within the resting prices of its side.
Interior(order) ==
    /\ ValidLimit(order)
    /\ RestingPrices(order.is_buy_order) # {}
    /\ Lowest(RestingPrices(order.is_buy_order)) <= order.order_limit[1]
    /\ order.order_limit[1] <= Highest(RestingPrices(order.is_buy_order))

\* C17: a valid limit order priced within [best, worst] of its side is
\* accepted and appended at the back of the level |price - best| levels
\* from the front of its ladder (a level created if there is none there);
\* the other levels keep their contents and order.
C17_InteriorInsertion ==
    [][ (call'.op = "place_order" /\ Interior(call'.order)) =>
          LET is_buy == call'.order.is_buy_order
              before == Ladder(is_buy)
              after == IF is_buy THEN buy_limit_orders' ELSE sell_limit_orders'
              offset == Distance(call'.order.order_limit[1], BestPrice(is_buy))
              level == IF offset < Len(before) THEN before[offset + 1] ELSE << >>
          IN  /\ result'.kind = "Ok"
              /\ offset < Len(after)
              /\ after[offset + 1] = Append(level, result'.value)
              /\ \A l \in DOMAIN before :
                    l # offset + 1 => l \in DOMAIN after /\ after[l] = before[l]
    ]_vars

-----------------------------------------------------------------------------
\* The signals on which a matching walk may start.
CrossingSignals == { "BuyAtMarket", "SellAtMarket", "NewHighestBid", "NewLowestAsk" }

\* C18: a placement starts at most one matching walk, and only when the
\* insertion signal is an at-market or a new-best signal; a placement whose
\* signal is NoOperation starts no walk and only records the order in the
\* registry.
C18_WalkOnlyOnCrossingSignal ==
    [][ call'.op = "place_order" =>
          /\ Len(walks') <= 1
          /\ walks' # << >> =>
                result'.kind = "Ok" /\ matching_signal' \in CrossingSignals
          /\ matching_signal' = "NoOperation" =>
                /\ walks' = << >>
                /\ result'.kind = "Ok"
                /\ DOMAIN order_map' = (DOMAIN order_map) \cup { result'.value }
                /\ order_map'[result'.value] =
                      [ call'.order EXCEPT !.order_id = result'.value ]
                /\ \A id \in DOMAIN order_map :
                      id # result'.value => order_map'[id] = order_map[id]
                /\ executions' = executions
                /\ current_market_price' = current_market_price
    ]_vars

\* A new highest bid has just started one walk, in a book whose registry
\* holds an order recorded by an earlier NoOperation placement.
C18_Witness ==
    /\ call.op = "place_order"
    /\ matching_signal = "NewHighestBid"
    /\ walks = << "match_against_sell_side" >>
    /\ order_map # <<>>
    /\ sell_limit_orders # <<>>

-----------------------------------------------------------------------------
\* C19: worst_bid and best_ask keep their initial value 0 in every state, so
\* place_order never returns the too-far-from-market error and insert_order
\* never yields NewLowestAsk.
C19_WorstBidBestAskStayZero ==
    /\ worst_bid = 0
    /\ best_ask = 0
    /\ result # Err("Limit is too far away from current market price.")
    /\ matching_signal # "NewLowestAsk"
    /\ "match_against_buy_side" \notin { walks[k] : k \in DOMAIN walks }

\* Bids rest, and an ask was admitted below an earlier ask: the placements
\* that would lower worst_bid or best_ask have been made.
C19_Witness ==
    /\ RestingPrices(TRUE) # {}
    /\ \E i, j \in Resting(FALSE) :
          i < j /\ admitted[j].order_limit[1] < admitted[i].order_limit[1]
    /\ worst_bid = 0
    /\ best_ask = 0

\* C20: current_market_price equals starting_price and both at-market
\* queues are empty in every state.
C20_PriceAndMarketQueuesFixed ==
    /\ current_market_price = starting_price
    /\ buy_at_market_orders = << >>
    /\ sell_at_market_orders = << >>

\* A market order and a crossing pair of limit orders have been admitted.
C20_Witness ==
    /\ \E i \in DOMAIN admitted : admitted[i].order_limit = <<>>
    /\ RestingPrices(TRUE) # {}
    /\ RestingPrices(FALSE) # {}
    /\ ~NoCrossing
    /\ current_market_price = starting_price

=============================================================================
